---- MODULE Spec2Model ----
(***************************************************************************)
(* Model of the toptube server routes: the categories endpoint and the     *)
(* videos endpoint of src/app/api/categories/route.ts.  One behaviour is   *)
(* one inbound request; every outbound fetch is one step of the handler.   *)
(***************************************************************************)
EXTENDS Integers, Sequences, FiniteSets, TLC

(***************************************************************************)
(* Bounds of the model.                                                    *)
(***************************************************************************)
\* longest item list an upstream response carries (the code asks for at most
\* MAX_RESULTS; the model explores lists up to this length)
MaxItems == 3

\* route.ts:74
MAX_RESULTS == 24

(***************************************************************************)
(* JavaScript values.  A string the code inspects character by character   *)
(* is a sequence of one-character strings; Undefined stands for a field    *)
(* that is absent.  Strings the code only copies are TLA+ strings, with    *)
(* NoStr for an absent one.                                                *)
(***************************************************************************)
Undefined == <<"undefined">>
NoStr == "<undefined>"
Absent == "<absent>"

Digits == {"0", "1", "2", "3", "4", "5", "6", "7", "8", "9"}

DigitVal(c) ==
    CASE c = "0" -> 0 [] c = "1" -> 1 [] c = "2" -> 2 [] c = "3" -> 3
      [] c = "4" -> 4 [] c = "5" -> 5 [] c = "6" -> 6 [] c = "7" -> 7
      [] c = "8" -> 8 [] c = "9" -> 9

IsDigits(s) == Len(s) > 0 /\ \A i \in 1..Len(s) : s[i] \in Digits

RECURSIVE DecimalValue(_)
DecimalValue(s) ==
    IF Len(s) = 0 THEN 0
    ELSE 10 * DecimalValue(SubSeq(s, 1, Len(s) - 1)) + DigitVal(s[Len(s)])

InfinityText == <<"I", "n", "f", "i", "n", "i", "t", "y">>

\* Number(value) on the strings of the model's alphabet: an optionally signed
\* decimal integer is its value, "Infinity" is infinite, the empty string is
\* 0, anything else is NaN.
Number(s) ==
    IF s = <<>> THEN [kind |-> "finite", val |-> 0]
    ELSE IF IsDigits(s) THEN [kind |-> "finite", val |-> DecimalValue(s)]
    ELSE IF s[1] = "-" /\ IsDigits(Tail(s))
         THEN [kind |-> "finite", val |-> 0 - DecimalValue(Tail(s))]
    ELSE IF s[1] = "+" /\ IsDigits(Tail(s))
         THEN [kind |-> "finite", val |-> DecimalValue(Tail(s))]
    ELSE IF s = InfinityText \/ s = <<"+">> \o InfinityText
         THEN [kind |-> "infinite", val |-> 1]
    ELSE IF s = <<"-">> \o InfinityText THEN [kind |-> "infinite", val |-> -1]
    ELSE [kind |-> "nan", val |-> 0]

\* route.ts:76-80
toNumber(value) ==
    IF value = Undefined \/ value = <<>> THEN 0
    ELSE LET parsed == Number(value)
         IN  IF parsed.kind = "finite" THEN parsed.val ELSE 0

(***************************************************************************)
(* parseIsoDuration: the unanchored regular expression                     *)
(*   /PT(?:(\d+)H)?(?:(\d+)M)?(?:(\d+)S)?/                                 *)
(* matches at the leftmost "PT"; each optional group is taken greedily     *)
(* when a digit run followed by its letter is next, and skipped otherwise. *)
(***************************************************************************)
RECURSIVE DigitRun(_, _)
\* number of consecutive digits of s starting at position i
DigitRun(s, i) ==
    IF i <= Len(s) /\ s[i] \in Digits THEN 1 + DigitRun(s, i + 1) ELSE 0

\* the optional group (\d+)<letter> at position i: [ok, val, next]
MatchGroup(s, i, letter) ==
    LET n == DigitRun(s, i)
    IN  IF n > 0 /\ i + n <= Len(s) /\ s[i + n] = letter
        THEN [ok |-> TRUE, val |-> DecimalValue(SubSeq(s, i, i + n - 1)),
              next |-> i + n + 1]
        ELSE [ok |-> FALSE, val |-> 0, next |-> i]

\* positions where "PT" starts
PTStarts(s) == {i \in 1..(Len(s) - 1) : s[i] = "P" /\ s[i + 1] = "T"}

Min(S) == CHOOSE x \in S : \A y \in S : x <= y

\* the result of regex.exec: [matched, hours, minutes, seconds], a group that
\* did not take part reading as 0 (match[k] ?? 0)
DurationMatch(s) ==
    IF PTStarts(s) = {}
    THEN [matched |-> FALSE, hours |-> 0, minutes |-> 0, seconds |-> 0]
    ELSE LET p == Min(PTStarts(s)) + 2
             h == MatchGroup(s, p, "H")
             m == MatchGroup(s, h.next, "M")
             sec == MatchGroup(s, m.next, "S")
         IN  [matched |-> TRUE, hours |-> h.val, minutes |-> m.val,
              seconds |-> sec.val]

\* route.ts:82-91
parseIsoDuration(duration) ==
    IF duration = Undefined \/ duration = <<>> THEN 0
    ELSE LET match == DurationMatch(duration)
         IN  IF ~match.matched THEN 0
             ELSE match.hours * 3600 + match.minutes * 60 + match.seconds

(***************************************************************************)
(* The upstream platform.  Its catalogue is fixed; what a call returns is  *)
(* chosen by the platform among the answers that honour the call's         *)
(* parameters.  region and categoryId are the platform's own attributes of *)
(* a video: they are not part of the payload the route reads.              *)
(***************************************************************************)
Video(id, reg, cat, ch, views, likes, comments, dur) ==
    [id |-> id, region |-> reg, categoryId |-> cat,
     title |-> IF id = "v4" THEN NoStr ELSE "title-" \o id,
     channelTitle |-> IF ch = NoStr THEN NoStr ELSE "name-" \o ch,
     channelId |-> ch,
     publishedAt |-> IF id = "v4" THEN NoStr ELSE "2024-01-01T00:00:00Z",
     thumbnails |-> IF id = "v4" THEN NoStr ELSE "thumbs-" \o id,
     duration |-> dur,
     statistics |-> [viewCount |-> views, likeCount |-> likes,
                     commentCount |-> comments]]

Catalogue ==
    { Video("v1", "KR", "10", "c1", <<"1", "2">>, <<"3">>, Undefined,
            <<"P", "T", "1", "H", "2", "M", "3", "S">>),
      Video("v2", "KR", "10", "c1", <<"1", "2">>, <<"a", "b", "c">>, <<"5">>,
            <<"P", "T", "4", "5", "S">>),
      Video("v3", "KR", "25", "c2", <<"7">>, <<"3">>, InfinityText,
            <<"P", "T", "5", "M", "9", "S">>),
      Video("v4", "US", "25", NoStr, Undefined, <<"-", "5">>, <<"0">>,
            Undefined),
      Video("v5", "US", "10", "c3", <<"1", "0", "0">>, <<>>, <<"7">>,
            <<"P", "T", "5", "9", "S">>),
      Video("v6", "US", "25", "c2", <<"7">>, <<"2", "0">>, <<"5">>,
            <<"P", "T", "1", "M">>) }

VideoById(id) == CHOOSE v \in Catalogue : v.id = id

\* the avatars the platform knows: "" is a size it does not have
ChannelCatalogue ==
    { [id |-> "c1", medium |-> "m-c1", default |-> "d-c1"],
      [id |-> "c2", medium |-> "", default |-> "d-c2"],
      [id |-> "c3", medium |-> "", default |-> ""] }

\* raw videoCategories items: id and snippet.title, either possibly absent
CategoryCatalogue ==
    { [id |-> "10", title |-> "Music"], [id |-> "25", title |-> "News"],
      [id |-> NoStr, title |-> "Ghost"], [id |-> "30", title |-> ""] }

\* the upstream statuses the model explores, and the error bodies
Statuses == {200, 403, 404, 500}
BodyTexts == {"quotaExceeded", ""}
Ok(status) == status >= 200 /\ status <= 299

\* every sequence of at most n distinct elements of S
DistinctSeqs(S, n) ==
    UNION { { s \in [1..k -> S] : \A i, j \in 1..k : i # j => s[i] # s[j] }
            : k \in 0..n }

Range(s) == {s[i] : i \in 1..Len(s)}

\* the longest list a call asking for maxResults=MAX_RESULTS is answered with
PageLimit == IF MaxItems < MAX_RESULTS THEN MaxItems ELSE MAX_RESULTS

\* what the platform may list for chart=mostPopular
ListingMatches(regionCode, videoCategoryId) ==
    { v \in Catalogue :
        /\ regionCode = Absent \/ v.region = regionCode
        /\ videoCategoryId = Absent \/ v.categoryId = videoCategoryId }

\* the videoId of each search item; "" is an item without a videoId
SearchResults(regionCode, videoCategoryId) ==
    DistinctSeqs({v.id : v \in ListingMatches(regionCode, videoCategoryId)}
                     \cup {""}, PageLimit)

\* the records the platform returns for a list of ids
HydrationResults(idList) ==
    DistinctSeqs({v \in Catalogue : v.id \in Range(idList)}, PageLimit)

(***************************************************************************)
(* Ranking, filtering and the response items (route.ts:219-296).           *)
(***************************************************************************)
\* truthiness of a copied string: absent and "" are falsy
Truthy(str) == str # NoStr /\ str # ""

\* x ?? ""
OrEmpty(str) == IF str = NoStr THEN "" ELSE str

\* route.ts:261-271
getValue(stats, sort) ==
    CASE sort = "likes" -> toNumber(stats.likeCount)
      [] sort = "comments" -> toNumber(stats.commentCount)
      [] OTHER -> toNumber(stats.viewCount)

\* a comparator that ranks ascending
compareAscending(a, b, sort) ==
    getValue(a.statistics, sort) - getValue(b.statistics, sort)

\* the comparator of route.ts:257-274
compare(a, b, sort) == getValue(b.statistics, sort) - getValue(a.statistics, sort)

RECURSIVE InsertSortedUnstable(_, _, _)
\* an insertion that puts x in front of the elements it ties with
InsertSortedUnstable(x, s, sort) ==
    IF s = <<>> THEN <<x>>
    ELSE IF compare(x, Head(s), sort) <= 0 THEN <<x>> \o s
    ELSE <<Head(s)>> \o InsertSortedUnstable(x, Tail(s), sort)

RECURSIVE InsertSorted(_, _, _)
\* x goes in front of the first element it compares below
InsertSorted(x, s, sort) ==
    IF s = <<>> THEN <<x>>
    ELSE IF compare(x, Head(s), sort) < 0 THEN <<x>> \o s
    ELSE <<Head(s)>> \o InsertSorted(x, Tail(s), sort)

RECURSIVE sorted(_, _)
\* [...items].sort(comparator): Array.prototype.sort is stable
sorted(items, sort) ==
    IF items = <<>> THEN <<>>
    ELSE InsertSorted(items[Len(items)],
                      sorted(SubSeq(items, 1, Len(items) - 1), sort), sort)

\* a filter that also drops the videos of exactly one minute
KeepsItemStrict(item) == parseIsoDuration(item.duration) > 60

\* the predicate of route.ts:278-281
KeepsItem(item) == parseIsoDuration(item.duration) >= 60

RECURSIVE FilterItems(_)
FilterItems(s) ==
    IF s = <<>> THEN <<>>
    ELSE IF KeepsItem(Head(s)) THEN <<Head(s)>> \o FilterItems(Tail(s))
    ELSE FilterItems(Tail(s))

\* route.ts:276-282
filtered(items, sort, shorts) ==
    IF shorts = "exclude" THEN FilterItems(sorted(items, sort))
    ELSE sorted(items, sort)

RECURSIVE Dedup(_)
\* first occurrences, in order
Dedup(s) ==
    IF s = <<>> THEN <<>>
    ELSE LET front == Dedup(SubSeq(s, 1, Len(s) - 1))
         IN  IF s[Len(s)] \in Range(front) THEN front
             ELSE Append(front, s[Len(s)])

RECURSIVE TruthySeq(_)
\* .filter(Boolean) on copied strings
TruthySeq(s) ==
    IF s = <<>> THEN <<>>
    ELSE IF Truthy(Head(s)) THEN <<Head(s)>> \o TruthySeq(Tail(s))
    ELSE TruthySeq(Tail(s))

\* route.ts:221-223
channelIds(items) ==
    Dedup(TruthySeq([i \in 1..Len(items) |-> items[i].channelId]))

\* route.ts:245-248
ChannelThumb(channel) ==
    IF channel.medium # "" THEN channel.medium ELSE channel.default

\* route.ts:242-253: the mapping built from the lookup's items
channelThumbnails(channelItems) ==
    LET kept == {c \in channelItems : Truthy(c.id) /\ ChannelThumb(c) # ""}
    IN  [id \in {c.id : c \in kept} |->
            ChannelThumb(CHOOSE c \in kept : c.id = id)]

\* route.ts:285-296
ResponseItem(item, thumbs) ==
    [id |-> item.id,
     title |-> OrEmpty(item.title),
     channelTitle |-> OrEmpty(item.channelTitle),
     channelThumbnail |->
        IF Truthy(item.channelId)
        THEN IF item.channelId \in DOMAIN thumbs THEN thumbs[item.channelId]
             ELSE ""
        ELSE "",
     publishedAt |-> OrEmpty(item.publishedAt),
     duration |-> IF item.duration = Undefined THEN <<>> ELSE item.duration,
     thumbnails |-> IF item.thumbnails = NoStr THEN "{}" ELSE item.thumbnails,
     statistics |-> item.statistics]

ResponseItems(items, thumbs) ==
    [i \in 1..Len(items) |-> ResponseItem(items[i], thumbs)]

\* route.ts:37-42
categories(items) ==
    LET mapped == [i \in 1..Len(items) |->
                      [value |-> OrEmpty(items[i].id),
                       label |-> OrEmpty(items[i].title)]]
        Keep(c) == c.value # "" /\ c.label # ""
    IN  SelectSeq(mapped, Keep)

(***************************************************************************)
(* The state of one request.                                               *)
(***************************************************************************)
VARIABLES
    endpoint,   \* which route handles the request: "categories" or "videos"
    apiKey,     \* process.env.YOUTUBE_API_KEY
    query,      \* the request's search parameters, Absent when not given
    pc,         \* where the handler is
    calls,      \* the outbound fetches issued so far, with their answers
    ids,        \* the identifiers collected by the search fallback
    data,       \* the working set: the parsed body of the listing or hydration
    resp        \* the response returned, kind "none" until the handler returns

serverVars == <<endpoint, apiKey, query, pc, calls, ids, data, resp>>

(***************************************************************************)
(* The state of one duration on its way from the platform to the card: the *)
(* server parses it for the shorts filter (route.ts:279), the client       *)
(* formats it for display (part_000:612).                                  *)
(***************************************************************************)
VARIABLES
    isoDuration,    \* the duration text of a video
    seconds,        \* what parseIsoDuration made of it
    durationLabel,  \* what formatDuration made of it
    dpc             \* "parse", "format" or "done"

durationVars == <<isoDuration, seconds, durationLabel, dpc>>

(***************************************************************************)
(* The state of the client component that the videos requests read and     *)
(* write (part_000:129-133).                                               *)
(***************************************************************************)
VARIABLES
    videos,         \* the list shown
    selectedVideo,  \* the video of the player, NoVideo for null
    loading,        \* a request is under way
    error,          \* the message shown, NoStr for null
    playerOpen,     \* the player overlay is open
    inFlight,       \* the numbers of the requests not yet answered
    issued,         \* how many requests fetchVideos has sent
    applied         \* the number of the request whose items are in videos

videoVars ==
    <<videos, selectedVideo, loading, error, playerOpen, inFlight, issued,
      applied>>

(***************************************************************************)
(* The state of the client component that the category selector reads and  *)
(* writes (part_000:117-127, 187), and the stored order.                   *)
(***************************************************************************)
VARIABLES
    clientCategories,   \* the values of the state `categories`
    selectedCategory,   \* the state `category`
    categoryOrder,      \* the values in the order of the selector
    editOrders,         \* the order editor is open
    storedOrder,        \* the item "toptube-category-order" of localStorage
    cpc                 \* "mount", "fetching", "loaded" or "failed"

categoryVars ==
    <<clientCategories, selectedCategory, categoryOrder, editOrders,
      storedOrder, cpc>>

\* everything but the state of a server request
clientVars == <<durationVars, videoVars, categoryVars>>

vars == <<serverVars, clientVars>>

\* route.ts:105-108
region == IF query.region = Absent THEN "KR" ELSE query.region
category == IF query.category = Absent THEN "all" ELSE query.category
sort == IF query.sort = Absent THEN "views" ELSE query.sort
shorts == IF query.shorts = Absent THEN "include" ELSE query.shorts

Regions == {Absent, "KR", "WORLD"}
Categories == {Absent, "all", "10", "25"}
Sorts == {Absent, "views", "likes", "comments", "rating"}
ShortsFilters == {Absent, "include", "exclude"}
ApiKeys == {NoStr, "", "key"}

NoQuery == [region |-> Absent, category |-> Absent, sort |-> Absent,
            shorts |-> Absent]

\* one outbound fetch: the endpoint, the parameters that scope it, the status
\* answered, the error text of the body and, for a success, the ids of the
\* items the platform sent ("" for a search item without a videoId)
Call(api, regionCode, videoCategoryId, id, status, body, returned) ==
    [api |-> api, regionCode |-> regionCode,
     videoCategoryId |-> videoCategoryId, id |-> id, status |-> status,
     body |-> body, returned |-> returned]

NoResponse ==
    [kind |-> "none", status |-> 0, error |-> Absent, details |-> Absent,
     items |-> <<>>, categories |-> <<>>, region |-> Absent,
     category |-> Absent, sort |-> Absent, shorts |-> Absent]

\* NextResponse.json({error, details}, {status})
ErrorResponse(status, errorText, details) ==
    [NoResponse EXCEPT !.kind = "error", !.status = status,
                       !.error = errorText,
                       !.details = details]

\* route.ts:8-11 and 98-101
MissingKeyResponse ==
    ErrorResponse(500, "Missing YOUTUBE_API_KEY in environment.", Absent)

\* an error response that does not forward the upstream status
UpstreamErrorAs500(status, message) ==
    ErrorResponse(500, "YouTube API error", message)

\* route.ts:27-31, 174-178 and 206-210
UpstreamError(status, message) ==
    ErrorResponse(status, "YouTube API error", message)

\* a handler that does not check the credential
HasKeyUnchecked(key) == TRUE

\* route.ts:7 and 97
HasKey(key) == Truthy(key)

\* a fallback that does not look at the category
FallbackOnAny404(status, cat) == status = 404

\* route.ts:151
FallbackEligible(status, cat) == status = 404 /\ cat # "all"

\* route.ts:117-123: the scope of the primary listing call
PrimaryParams(reg, cat) ==
    [regionCode |-> IF reg # "WORLD" THEN reg ELSE Absent,
     videoCategoryId |-> IF cat # "all" THEN cat ELSE Absent]

\* search parameters that never carry the region
buildSearchParamsNoRegion(withRegion, reg, cat) ==
    [regionCode |-> Absent, videoCategoryId |-> cat]

\* route.ts:152-166
buildSearchParams(withRegion, reg, cat) ==
    [regionCode |-> IF withRegion THEN reg ELSE Absent,
     videoCategoryId |-> cat]

\* a parsed JSON body: null, or an object whose items may be no array
Body(items) == [null |-> FALSE, isArray |-> TRUE, items |-> items]
NoItemsBody == [null |-> FALSE, isArray |-> FALSE, items |-> <<>>]
NullBody == [null |-> TRUE, isArray |-> FALSE, items |-> <<>>]

\* Array.isArray(body.items) ? body.items : []
ItemsOf(body) == IF body.isArray THEN body.items ELSE <<>>

\* route.ts:182-186 and 195-199
SearchIds(body) == TruthySeq(ItemsOf(body))

\* a retry that does not look at the first search's result
RetryAlways(idList) == TRUE

\* route.ts:188
NeedsUnscopedRetry(idList) == idList = <<>>

\* fetchByIds without its guard on the empty list
HydrationAlways(idList) == TRUE

\* route.ts:131
HydrationNeeded(idList) == idList # <<>>

\* fetchByIds with its status test inverted
HydratedItemsInverted(status, body) ==
    IF Ok(status) THEN <<>> ELSE ItemsOf(body)

\* route.ts:142-144
HydratedItems(status, body) ==
    IF ~Ok(status) THEN <<>> ELSE ItemsOf(body)

\* a lookup that reads the body whatever the status
LookupThumbnailsAnyStatus(status, channelItems) ==
    channelThumbnails(channelItems)

\* route.ts:225, 237-254
LookupThumbnails(status, channelItems) ==
    IF Ok(status) THEN channelThumbnails(channelItems) ELSE << >>

IdsOf(items) == [i \in 1..Len(items) |-> items[i].id]

\* no duration is being handled
DurationIdle ==
    /\ isoDuration = <<>>
    /\ seconds = 0
    /\ durationLabel = <<>>
    /\ dpc = "idle"

\* null for a video
NoVideo == [id |-> NoStr, from |-> 0]

\* part_000:129-133: the component's initial state
VideosInitial ==
    /\ videos = <<>>
    /\ selectedVideo = NoVideo
    /\ loading = FALSE
    /\ error = NoStr
    /\ playerOpen = FALSE
    /\ inFlight = {}
    /\ issued = 0
    /\ applied = 0

\* what localStorage holds under the key: nothing, or a text that parses to
\* an array, parses to something else, or does not parse
Stored(kind, items) == [kind |-> kind, items |-> items]
NothingStored == Stored("absent", <<>>)

\* part_000:117-127 and 187: the component's initial state
CategoriesInitial ==
    /\ clientCategories = <<"all">>
    /\ selectedCategory = "all"
    /\ categoryOrder = <<"all">>
    /\ editOrders = FALSE
    /\ cpc = "mount"

\* nothing but a server request is going on
ClientIdle ==
    /\ DurationIdle
    /\ VideosInitial
    /\ CategoriesInitial
    /\ storedOrder = NothingStored

\* no server request is going on
ServerIdle ==
    /\ endpoint = "videos"
    /\ apiKey = "key"
    /\ query = NoQuery
    /\ pc = "idle"
    /\ calls = <<>>
    /\ ids = <<>>
    /\ data = NullBody
    /\ resp = NoResponse

Init ==
    /\ ClientIdle
    /\ endpoint \in {"categories", "videos"}
    /\ apiKey \in ApiKeys
    /\ query \in [region : Regions, category : Categories, sort : Sorts,
                  shorts : ShortsFilters]
    /\ endpoint = "categories" => query = NoQuery
    /\ pc = "start"
    /\ calls = <<>>
    /\ ids = <<>>
    /\ data = NullBody
    /\ resp = NoResponse

(***************************************************************************)
(* The categories endpoint (route.ts:5-45).                                *)
(***************************************************************************)
CategoriesGET ==
    /\ pc = "start"
    /\ endpoint = "categories"
    /\ pc' = "done"
    /\ UNCHANGED <<clientVars, endpoint, apiKey, query, ids, data>>
    /\ IF ~HasKey(apiKey)
       THEN /\ resp' = MissingKeyResponse
            /\ UNCHANGED calls
       ELSE \E status \in Statuses, message \in BodyTexts,
               body \in {Body(s) : s \in DistinctSeqs(CategoryCatalogue, MaxItems)}
                        \cup {NoItemsBody} :
            IF ~Ok(status)
            THEN /\ calls' = Append(calls, Call("videoCategories", "KR", Absent,
                                                <<>>, status, message, <<>>))
                 /\ resp' = UpstreamError(status, message)
            ELSE /\ calls' = Append(calls, Call("videoCategories", "KR", Absent,
                                                <<>>, status, "", <<>>))
                 /\ resp' = [NoResponse EXCEPT !.kind = "categories",
                                !.status = 200,
                                !.categories = categories(ItemsOf(body))]

(***************************************************************************)
(* The videos endpoint (route.ts:95-303), one action per outbound fetch.   *)
(***************************************************************************)
\* route.ts:95-128 and 147-151, 205-211: the credential check, the primary
\* listing call and the branch on its status
VideosPrimary ==
    /\ pc = "start"
    /\ endpoint = "videos"
    /\ UNCHANGED <<clientVars, endpoint, apiKey, query, ids>>
    /\ IF ~HasKey(apiKey)
       THEN /\ resp' = MissingKeyResponse
            /\ pc' = "done"
            /\ UNCHANGED <<calls, data>>
       ELSE LET params == PrimaryParams(region, category)
            IN  \E status \in Statuses, message \in BodyTexts,
                   body \in {Body(s) : s \in DistinctSeqs(
                                ListingMatches(params.regionCode,
                                               params.videoCategoryId), PageLimit)}
                            \cup {NoItemsBody, NullBody} :
                IF Ok(status)
                THEN /\ calls' = Append(calls, Call("videos", params.regionCode,
                                    params.videoCategoryId, <<>>, status, "",
                                    IdsOf(ItemsOf(body))))
                     /\ data' = body
                     /\ pc' = "enrich"
                     /\ UNCHANGED resp
                ELSE /\ calls' = Append(calls, Call("videos", params.regionCode,
                                    params.videoCategoryId, <<>>, status, message,
                                    <<>>))
                     /\ UNCHANGED data
                     /\ IF FallbackEligible(status, category)
                        THEN /\ pc' = "searchScoped"
                             /\ UNCHANGED resp
                        ELSE /\ pc' = "done"
                             /\ resp' = UpstreamError(status, message)

\* the bodies a search may answer under the given scope
SearchBodies(sp) ==
    {Body(s) : s \in SearchResults(sp.regionCode, sp.videoCategoryId)}
        \cup {NoItemsBody}

\* route.ts:168-188: the region-scoped search
SearchScoped ==
    /\ pc = "searchScoped"
    /\ UNCHANGED <<clientVars, endpoint, apiKey, query, data>>
    /\ LET sp == buildSearchParams(TRUE, region, category)
       IN  \E status \in Statuses, message \in BodyTexts, body \in SearchBodies(sp) :
           IF ~Ok(status)
           THEN /\ calls' = Append(calls, Call("search", sp.regionCode,
                                sp.videoCategoryId, <<>>, status, message, <<>>))
                /\ resp' = UpstreamError(status, message)
                /\ pc' = "done"
                /\ UNCHANGED ids
           ELSE /\ calls' = Append(calls, Call("search", sp.regionCode,
                                sp.videoCategoryId, <<>>, status, "",
                                ItemsOf(body)))
                /\ ids' = SearchIds(body)
                /\ pc' = IF NeedsUnscopedRetry(SearchIds(body))
                         THEN "searchUnscoped" ELSE "hydrate"
                /\ UNCHANGED resp

\* route.ts:188-201: the retry without the region scope
SearchUnscoped ==
    /\ pc = "searchUnscoped"
    /\ UNCHANGED <<clientVars, endpoint, apiKey, query, data, resp>>
    /\ pc' = "hydrate"
    /\ LET sp == buildSearchParams(FALSE, region, category)
       IN  \E status \in Statuses, message \in BodyTexts, body \in SearchBodies(sp) :
           IF Ok(status)
           THEN /\ calls' = Append(calls, Call("search", sp.regionCode,
                                sp.videoCategoryId, <<>>, status, "",
                                ItemsOf(body)))
                /\ ids' = SearchIds(body)
           ELSE /\ calls' = Append(calls, Call("search", sp.regionCode,
                                sp.videoCategoryId, <<>>, status, message, <<>>))
                /\ UNCHANGED ids

\* route.ts:130-145 and 203-204: fetchByIds(ids) and data = {items}
Hydrate ==
    /\ pc = "hydrate"
    /\ UNCHANGED <<clientVars, endpoint, apiKey, query, ids, resp>>
    /\ pc' = "enrich"
    /\ IF ~HydrationNeeded(ids)
       THEN /\ data' = Body(<<>>)
            /\ UNCHANGED calls
       ELSE \E status \in Statuses, message \in BodyTexts,
               body \in {Body(s) : s \in HydrationResults(ids)} \cup {NoItemsBody} :
            /\ calls' = Append(calls, Call("videos", Absent, Absent, ids, status,
                                IF Ok(status) THEN "" ELSE message,
                                IF Ok(status) THEN IdsOf(ItemsOf(body))
                                ELSE <<>>))
            /\ data' = Body(HydratedItems(status, body))

\* the channel records a lookup may answer for the requested ids
ChannelBodies(idList) ==
    SUBSET {c \in ChannelCatalogue : c.id \in Range(idList)}

\* route.ts:213-302: the channel lookup, ranking, filtering and the response
EnrichAndRespond ==
    /\ pc = "enrich"
    /\ UNCHANGED <<clientVars, endpoint, apiKey, query, ids, data>>
    /\ pc' = "done"
    /\ IF data.null
       THEN /\ resp' = UpstreamError(500, "Empty response")
            /\ UNCHANGED calls
       ELSE LET items == ItemsOf(data)
                cids == channelIds(items)
                Respond(thumbs) ==
                    resp' = [NoResponse EXCEPT !.kind = "videos", !.status = 200,
                                !.items = ResponseItems(
                                    filtered(items, sort, shorts), thumbs),
                                !.region = region, !.category = category,
                                !.sort = sort, !.shorts = shorts]
            IN  IF cids = <<>>
                THEN /\ Respond(<< >>)
                     /\ UNCHANGED calls
                ELSE \E status \in Statuses, channelItems \in ChannelBodies(cids) :
                     /\ calls' = Append(calls, Call("channels", Absent, Absent,
                                         cids, status, "", <<>>))
                     /\ Respond(LookupThumbnails(status, channelItems))

Next ==
    \/ CategoriesGET
    \/ VideosPrimary
    \/ SearchScoped
    \/ SearchUnscoped
    \/ Hydrate
    \/ EnrichAndRespond

Spec == Init /\ [][Next]_vars

(***************************************************************************)
(* Properties of the videos endpoint.                                      *)
(***************************************************************************)
\* the handler has returned a success response of the videos endpoint
VideosSuccess == pc = "done" /\ resp.kind = "videos"

\* the statistic a sort key names
SelectedStat(stats, key) ==
    CASE key = "views" -> stats.viewCount
      [] key = "likes" -> stats.likeCount
      [] key = "comments" -> stats.commentCount

\* the request went through the search fallback
UsedFallback == Len(calls) >= 2 /\ calls[2].api = "search"

\* the identifiers a search answer carried
Identifiers(call) == {x \in Range(call.returned) : x # ""}

\* C1: for every sort key in {views, likes, comments} the items of a
\* successful videos response are in non-increasing order of the selected
\* statistic, a missing or non-numeric statistic counting as zero, on the
\* primary and on the fallback path.
C1_SortedDescending ==
    (VideosSuccess /\ sort \in {"views", "likes", "comments"}) =>
        \A i \in 1..(Len(resp.items) - 1) :
            toNumber(SelectedStat(resp.items[i].statistics, sort))
                >= toNumber(SelectedStat(resp.items[i + 1].statistics, sort))

\* C1 witness: a fallback request ranked by likes whose three items came
\* from the platform in another order than the response has them
C1_Witness ==
    /\ VideosSuccess
    /\ UsedFallback
    /\ sort = "likes"
    /\ Len(resp.items) = 3
    /\ IdsOf(resp.items) # IdsOf(ItemsOf(data))

\* C2: with shorts=exclude every response item has a parsed duration of at
\* least 60 seconds and every working-set record of at least 60 seconds is
\* retained; with shorts=include the response items are exactly the working
\* set.
C2_ShortsFilter ==
    VideosSuccess =>
        LET work == ItemsOf(data)
            out == resp.items
        IN  /\ shorts = "exclude" =>
                /\ \A i \in 1..Len(out) : parseIsoDuration(out[i].duration) >= 60
                /\ \A j \in 1..Len(work) :
                       parseIsoDuration(work[j].duration) >= 60
                           => \E i \in 1..Len(out) : out[i].id = work[j].id
                /\ Range(IdsOf(out)) \subseteq Range(IdsOf(work))
            /\ shorts = "include" =>
                /\ Len(out) = Len(work)
                /\ Range(IdsOf(out)) = Range(IdsOf(work))

\* C2 witness: shorts are excluded, a video of exactly 60 seconds is kept and
\* a shorter one is dropped
C2_Witness ==
    /\ VideosSuccess
    /\ shorts = "exclude"
    /\ "v6" \in Range(IdsOf(resp.items))
    /\ "v4" \in Range(IdsOf(ItemsOf(data)))
    /\ "v4" \notin Range(IdsOf(resp.items))

\* C3: when the primary listing call returns 404 and the category is "all",
\* the request ends in an error response with status 404 and no search or
\* hydration call is issued; the search fallback is entered only when the
\* primary status is 404 and the category is not "all".
C3_NoFallbackForAll ==
    /\ (endpoint = "videos" /\ Len(calls) >= 1 /\ calls[1].status = 404
            /\ category = "all")
        => /\ pc = "done"
           /\ resp.kind = "error"
           /\ resp.status = 404
           /\ Len(calls) = 1
    /\ (pc \in {"searchScoped", "searchUnscoped", "hydrate"}
            \/ \E i \in 1..Len(calls) : calls[i].api = "search")
        => /\ calls[1].api = "videos"
           /\ calls[1].status = 404
           /\ category # "all"

\* C3 witness: the primary call answered 404 to a request for category "all"
C3_Witness ==
    /\ endpoint = "videos"
    /\ pc = "done"
    /\ Len(calls) = 1
    /\ calls[1].status = 404
    /\ query.category = "all"

\* the scenario of C4: primary 404, region-scoped search succeeds with no
\* identifier, the unscoped search returns identifiers and hydration returns
\* the records of exactly those
C4_Scenario ==
    /\ endpoint = "videos"
    /\ pc = "done"
    /\ Len(calls) >= 4
    /\ calls[1].status = 404
    /\ calls[2].api = "search" /\ Ok(calls[2].status)
    /\ Identifiers(calls[2]) = {}
    /\ calls[3].api = "search" /\ calls[3].regionCode = Absent
    /\ Ok(calls[3].status) /\ Identifiers(calls[3]) # {}
    /\ calls[4].api = "videos" /\ Ok(calls[4].status)
    /\ Range(calls[4].returned) = Identifiers(calls[3])

\* C4: in that scenario the request ends in a success response whose items
\* are exactly the hydrated records, ranked and filtered for shorts, and whose
\* region field is the requested region.
C4_FallbackItems ==
    C4_Scenario =>
        LET kept == {id \in Identifiers(calls[3]) :
                        shorts = "exclude" =>
                            parseIsoDuration(VideoById(id).duration) >= 60}
        IN  /\ resp.kind = "videos"
            /\ resp.status = 200
            /\ Range(IdsOf(resp.items)) = kept
            /\ Len(resp.items) = Cardinality(kept)
            /\ \A i \in 1..Len(resp.items) :
                   resp.items[i].statistics
                       = VideoById(resp.items[i].id).statistics
            /\ \A i \in 1..(Len(resp.items) - 1) :
                   getValue(resp.items[i].statistics, sort)
                       >= getValue(resp.items[i + 1].statistics, sort)
            /\ resp.region = region

\* C4 witness: the scenario with three identifiers, all three in the response
C4_Witness ==
    /\ C4_Scenario
    /\ Cardinality(Identifiers(calls[3])) = 3
    /\ Len(resp.items) = 3
    /\ query.region = "KR"
    /\ resp.region = "KR"

\* C5: when the primary listing call returns a non-success status other than
\* 404 for a specific category, the request ends in an error response whose
\* status is the upstream status and whose details are the upstream body
\* text, and no further outbound call is issued.
C5_PrimaryFailurePropagates ==
    (endpoint = "videos" /\ Len(calls) >= 1 /\ ~Ok(calls[1].status)
        /\ ~(calls[1].status = 404 /\ category # "all"))
    => /\ pc = "done"
       /\ resp.kind = "error"
       /\ resp.status = calls[1].status
       /\ resp.details = calls[1].body
       /\ Len(calls) = 1

\* C5 witness: the primary call for a specific category answered 403 with a
\* body text
C5_Witness ==
    /\ endpoint = "videos"
    /\ pc = "done"
    /\ Len(calls) = 1
    /\ calls[1].status = 403
    /\ calls[1].body = "quotaExceeded"
    /\ category = "25"
    /\ resp.details = "quotaExceeded"

\* an outbound call of the videos endpoint that answered a non-success
\* status and is neither the primary call's 404 for a specific category nor
\* the channel lookup
C6_FatalFailure(i) ==
    /\ calls[i].api \in {"videos", "search"}
    /\ ~Ok(calls[i].status)
    /\ ~(i = 1 /\ calls[i].status = 404 /\ category # "all")

\* C6: every upstream call that returns a non-success status (primary
\* listing, region-scoped search, unscoped search, hydration) makes the
\* request end in an error response, except the primary call's 404 for a
\* specific category and the channel lookup.
C6_FailedCallFailsRequest ==
    (endpoint = "videos" /\ pc = "done"
        /\ \E i \in 1..Len(calls) : C6_FatalFailure(i))
    => resp.kind = "error"

\* a catalogue video belongs to a requested region
InRegion(v, reg) == reg = "WORLD" \/ v.region = reg

\* the request went on to the search without the region scope
UsedUnscopedSearch == Len(calls) >= 3 /\ calls[3].api = "search"

\* C7 as stated: every record of a successful videos response belongs to the
\* requested region, and to the requested category when it is not "all", on
\* every retrieval path.
C7_RegionAndCategory ==
    VideosSuccess =>
        \A i \in 1..Len(resp.items) :
            LET v == VideoById(resp.items[i].id)
            IN  /\ InRegion(v, region)
                /\ category # "all" => v.categoryId = category

\* C7 amended: every record of a successful videos response belongs to the
\* requested category when it is not "all", on every retrieval path, and to
\* the requested region on the primary and the region-scoped search path;
\* a record retrieved by the unscoped search may belong to any region.
C7_CategoryAndScopedRegion ==
    VideosSuccess =>
        \A i \in 1..Len(resp.items) :
            LET v == VideoById(resp.items[i].id)
            IN  /\ category # "all" => v.categoryId = category
                /\ ~UsedUnscopedSearch => InRegion(v, region)

\* C7 witness: a region-scoped search fallback for region KR answered with
\* records, all of them of the region and the category
C7_Witness ==
    /\ VideosSuccess
    /\ UsedFallback
    /\ ~UsedUnscopedSearch
    /\ region = "KR"
    /\ category = "10"
    /\ Len(resp.items) = 2

\* C8: when the credential is absent, the categories endpoint and the videos
\* endpoint return a status-500 response with an {error} body and issue no
\* outbound call.
C8_MissingCredential ==
    (apiKey = NoStr \/ apiKey = "") =>
        /\ calls = <<>>
        /\ pc \in {"start", "done"}
        /\ pc = "done" =>
              /\ resp.kind = "error"
              /\ resp.status = 500
              /\ resp.error # Absent /\ resp.error # ""
              /\ resp.items = <<>> /\ resp.categories = <<>>

\* C8 witness: the videos endpoint has answered a request without credential
C8_Witness ==
    /\ apiKey = NoStr
    /\ endpoint = "videos"
    /\ pc = "done"
    /\ resp.status = 500

\* the channel lookup of the request answered a non-success status
C9_LookupFailed ==
    /\ endpoint = "videos"
    /\ pc = "done"
    /\ Len(calls) >= 1
    /\ calls[Len(calls)].api = "channels"
    /\ ~Ok(calls[Len(calls)].status)

\* C9: when the channel-thumbnail lookup returns a non-success status the
\* videos request still ends in a success response with the items, in the
\* order, that ranking and filtering the working set give, every item's
\* channel thumbnail being empty.
C9_LookupFailureDegrades ==
    C9_LookupFailed =>
        /\ resp.kind = "videos"
        /\ resp.status = 200
        /\ IdsOf(resp.items) = IdsOf(filtered(ItemsOf(data), sort, shorts))
        /\ \A i \in 1..Len(resp.items) : resp.items[i].channelThumbnail = ""

\* C9 witness: the lookup failed for a response with two items whose
\* channels the platform has avatars for
C9_Witness ==
    /\ C9_LookupFailed
    /\ Len(resp.items) >= 2
    /\ \A i \in 1..Len(resp.items) : resp.items[i].id \in {"v1", "v3", "v6"}

\* both searches of the fallback succeeded without an identifier
C10_BothSearchesEmpty ==
    /\ endpoint = "videos"
    /\ Len(calls) >= 3
    /\ calls[2].api = "search" /\ Ok(calls[2].status)
    /\ Identifiers(calls[2]) = {}
    /\ calls[3].api = "search" /\ Ok(calls[3].status)
    /\ Identifiers(calls[3]) = {}

\* C10: when the region-scoped and the unscoped search both yield zero
\* identifiers the request ends in a success response with an empty item
\* list, and neither a hydration call nor a channel call is issued.
C10_EmptyFallbackSucceeds ==
    C10_BothSearchesEmpty =>
        /\ Len(calls) = 3
        /\ pc \in {"hydrate", "enrich", "done"}
        /\ pc = "done" =>
              /\ resp.kind = "videos"
              /\ resp.status = 200
              /\ resp.items = <<>>

\* C10 witness: the request has answered after two searches without result
C10_Witness ==
    /\ C10_BothSearchesEmpty
    /\ pc = "done"
    /\ resp.kind = "videos"
    /\ resp.items = <<>>

(***************************************************************************)
(* Durations: parseIsoDuration on the server (route.ts:82-91) and          *)
(* formatDuration on the client (part_000:103-114).                        *)
(***************************************************************************)
\* longest digit run of a component of a generated duration
MaxDigits == 2

\* longest arbitrary text tried as a duration
MaxTextLen == 3

DigitChar(d) ==
    CASE d = 0 -> "0" [] d = 1 -> "1" [] d = 2 -> "2" [] d = 3 -> "3"
      [] d = 4 -> "4" [] d = 5 -> "5" [] d = 6 -> "6" [] d = 7 -> "7"
      [] d = 8 -> "8" [] d = 9 -> "9"

RECURSIVE ToDecimal(_)
\* String(n) or `${n}` for a non-negative integer
ToDecimal(n) ==
    IF n < 10 THEN <<DigitChar(n)>>
    ELSE ToDecimal(n \div 10) \o <<DigitChar(n % 10)>>

RECURSIVE padStart(_, _, _)
\* s.padStart(width, fill)
padStart(s, width, fill) ==
    IF Len(s) >= width THEN s ELSE padStart(<<fill>> \o s, width, fill)

\* formatDuration without the padding of minutes and seconds
formatMatchUnpadded(match) ==
    IF match.hours > 0
    THEN ToDecimal(match.hours) \o <<":">> \o ToDecimal(match.minutes)
            \o <<":">> \o ToDecimal(match.seconds)
    ELSE ToDecimal(match.minutes) \o <<":">> \o ToDecimal(match.seconds)

\* part_000:110-113
formatMatch(match) ==
    IF match.hours > 0
    THEN ToDecimal(match.hours) \o <<":">>
            \o padStart(ToDecimal(match.minutes), 2, "0") \o <<":">>
            \o padStart(ToDecimal(match.seconds), 2, "0")
    ELSE ToDecimal(match.minutes) \o <<":">>
            \o padStart(ToDecimal(match.seconds), 2, "0")

\* part_000:103-114
formatDuration(duration) ==
    IF duration = Undefined \/ duration = <<>> THEN <<>>
    ELSE LET match == DurationMatch(duration)
         IN  IF ~match.matched THEN <<>> ELSE formatMatch(match)

\* every text of at most n characters of S
Texts(S, n) == UNION {[1..k -> S] : k \in 0..n}

\* the digit runs of the generated durations
ComponentDigits == {"0", "1", "9"}
ComponentTexts == Texts(ComponentDigits, MaxDigits) \ {<<>>}

\* a component: nothing, or a digit run and its letter
Components(letter) == {<<>>} \cup {d \o <<letter>> : d \in ComponentTexts}

\* the durations PT[nH][nM][nS]
GeneratedDurations ==
    {<<"P", "T">> \o h \o m \o s :
        h \in Components("H"), m \in Components("M"), s \in Components("S")}

\* the characters of the arbitrary texts
TextAlphabet == {"P", "T", "1", "D", "M", "S", "x"}

\* the durations the model explores: the generated ones, the same followed by
\* a stray character, arbitrary short texts, the absent duration and a few
\* durations as the platform writes them
DurationInputs ==
    GeneratedDurations
        \cup {g \o <<"x">> : g \in {d \in GeneratedDurations : Len(d) <= 5}}
        \cup Texts(TextAlphabet, MaxTextLen)
        \cup { Undefined,
               <<"P", "T", "1", "H", "2", "M", "3", "S">>,
               <<"P", "T", "5", "M", "9", "S">>,
               <<"P", "1", "D", "T", "2", "H">>,
               <<"x", "P", "T", "5", "M">>,
               <<"P", "T", "5", "S", "1", "M">> }

DurationInit ==
    /\ ServerIdle
    /\ VideosInitial
    /\ CategoriesInitial
    /\ storedOrder = NothingStored
    /\ isoDuration \in DurationInputs
    /\ seconds = 0
    /\ durationLabel = <<>>
    /\ dpc = "parse"

\* route.ts:279: the server parses the duration for the shorts filter
ServerParse ==
    /\ dpc = "parse"
    /\ seconds' = parseIsoDuration(isoDuration)
    /\ dpc' = "format"
    /\ UNCHANGED <<serverVars, videoVars, categoryVars, isoDuration, durationLabel>>

\* part_000:612: the client formats the duration of the card
ClientFormat ==
    /\ dpc = "format"
    /\ durationLabel' = formatDuration(isoDuration)
    /\ dpc' = "done"
    /\ UNCHANGED <<serverVars, videoVars, categoryVars, isoDuration, seconds>>

DurationNext ==
    \/ ServerParse
    \/ ClientFormat

SpecDuration == DurationInit /\ [][DurationNext]_vars

(***************************************************************************)
(* Properties of the duration parser and formatter.                        *)
(***************************************************************************)
\* the order of the component letters
LetterRank(c) == CASE c = "H" -> 1 [] c = "M" -> 2 [] c = "S" -> 3 [] OTHER -> 0

\* s is PT[nH][nM][nS]: after "PT" come digit runs, each closed by its
\* letter, the letters in the order H, M, S, and nothing else
WellFormed(s) ==
    /\ Len(s) >= 2 /\ s[1] = "P" /\ s[2] = "T"
    /\ LET letters == {i \in 3..Len(s) : s[i] \notin Digits}
       IN  /\ \A i \in letters :
                 LetterRank(s[i]) > 0 /\ i > 3 /\ s[i - 1] \in Digits
           /\ \A i, j \in letters :
                 i < j => LetterRank(s[i]) < LetterRank(s[j])
           /\ Len(s) > 2 => Len(s) \in letters

\* the number in front of a letter of a well-formed duration, 0 without it
ComponentValue(s, letter) ==
    LET at == {i \in 3..Len(s) : s[i] = letter}
    IN  IF at = {} THEN 0
        ELSE LET e == CHOOSE i \in at : TRUE
                 b == CHOOSE j \in 3..(e - 1) :
                        /\ \A k \in j..(e - 1) : s[k] \in Digits
                        /\ s[j - 1] \notin Digits
             IN  DecimalValue(SubSeq(s, b, e - 1))

RECURSIVE SplitColon(_)
\* the fields of a label, separated by ":"
SplitColon(l) ==
    LET colons == {i \in 1..Len(l) : l[i] = ":"}
    IN  IF colons = {} THEN <<l>>
        ELSE LET i == CHOOSE c \in colons : \A d \in colons : c <= d
             IN  <<SubSeq(l, 1, i - 1)>> \o SplitColon(SubSeq(l, i + 1, Len(l)))

\* a field shows v without needless zeros in front
LeadField(field, v) ==
    /\ IsDigits(field) /\ DecimalValue(field) = v
    /\ Len(field) = 1 \/ field[1] # "0"

\* a field shows v on two digits (more only when v needs them)
PaddedField(field, v) ==
    /\ IsDigits(field) /\ DecimalValue(field) = v
    /\ Len(field) >= 2
    /\ v < 100 => Len(field) = 2
    /\ v >= 100 => field[1] # "0"

\* C11: for every duration PT[nH][nM][nS] the parsed seconds are
\* hours*3600 + minutes*60 + seconds and the display string is H:MM:SS when
\* hours > 0 and M:SS otherwise, so that the string shown denotes the
\* duration the shorts filter used.
C11_ParseAndFormatAgree ==
    (dpc = "done" /\ WellFormed(isoDuration)) =>
        LET h == ComponentValue(isoDuration, "H")
            m == ComponentValue(isoDuration, "M")
            s == ComponentValue(isoDuration, "S")
            f == SplitColon(durationLabel)
        IN  /\ seconds = h * 3600 + m * 60 + s
            /\ IF h > 0
               THEN /\ Len(f) = 3
                    /\ LeadField(f[1], h)
                    /\ PaddedField(f[2], m)
                    /\ PaddedField(f[3], s)
                    /\ DecimalValue(f[1]) * 3600 + DecimalValue(f[2]) * 60
                          + DecimalValue(f[3]) = seconds
               ELSE /\ Len(f) = 2
                    /\ LeadField(f[1], m)
                    /\ PaddedField(f[2], s)
                    /\ DecimalValue(f[1]) * 60 + DecimalValue(f[2]) = seconds

\* C11 witness: PT1H2M3S parsed to 3723 and shown as 1:02:03
C11_Witness ==
    /\ dpc = "done"
    /\ isoDuration = <<"P", "T", "1", "H", "2", "M", "3", "S">>
    /\ seconds = 3723
    /\ durationLabel = <<"1", ":", "0", "2", ":", "0", "3">>

\* C12: for every malformed or absent duration (anything that is not
\* PT[nH][nM][nS], strings with trailing garbage or day components included)
\* the parser yields zero seconds and the formatter the empty string.
C12_MalformedYieldsZero ==
    (dpc = "done" /\ ~WellFormed(isoDuration)) =>
        /\ seconds = 0
        /\ durationLabel = <<>>

(***************************************************************************)
(* Further properties of the videos endpoint.                              *)
(***************************************************************************)
\* C14: within one videos request a search call is issued only after the
\* primary call returned 404 with a specific category; the unscoped search
\* is issued at most once and only after the region-scoped search succeeded
\* with zero identifiers; hydration is issued only after the searches and
\* only with a non-empty identifier list; the channel lookup is issued last
\* and at most once.
C14_CallOrder ==
    endpoint = "videos" =>
        LET n == Len(calls)
            searches == {i \in 1..n : calls[i].api = "search"}
            hydrations == {i \in 2..n : calls[i].api = "videos"}
            lookups == {i \in 1..n : calls[i].api = "channels"}
        IN  /\ n >= 1 => calls[1].api = "videos" /\ calls[1].id = <<>>
            /\ searches # {} =>
                  /\ calls[1].status = 404
                  /\ category # "all"
            /\ searches \subseteq {2, 3}
            /\ 2 \in searches => calls[2].regionCode = region
            /\ 3 \in searches =>
                  /\ 2 \in searches
                  /\ Ok(calls[2].status)
                  /\ Identifiers(calls[2]) = {}
                  /\ calls[3].regionCode = Absent
            /\ \A h \in hydrations :
                  /\ searches # {}
                  /\ \A s \in searches : s < h
                  /\ calls[h].id # <<>>
                  /\ Range(calls[h].id) = Identifiers(calls[h - 1])
            /\ Cardinality(hydrations) <= 1
            /\ \A c \in lookups : c = n /\ pc = "done"

\* C14 witness: a request that issued all five calls
C14_Witness ==
    /\ endpoint = "videos"
    /\ pc = "done"
    /\ Len(calls) = 5
    /\ calls[2].api = "search" /\ calls[3].api = "search"
    /\ calls[4].api = "videos"
    /\ calls[5].api = "channels"

\* the place of a record in the working set
PlaceIn(work, id) == CHOOSE i \in 1..Len(work) : work[i].id = id

\* C15: records whose selected statistic is equal (a missing or non-numeric
\* one counting as zero) appear in the response in the relative order of the
\* working set, and removing shorts does not change the relative order of
\* the retained records.
C15_TiesKeepUpstreamOrder ==
    (VideosSuccess /\ sort \in {"views", "likes", "comments"}) =>
        LET work == ItemsOf(data)
            out == resp.items
            Stat(item) == toNumber(SelectedStat(item.statistics, sort))
            Shown(id) == id \in Range(IdsOf(out))
        IN  /\ \A i, j \in 1..Len(out) :
                  (i < j /\ Stat(out[i]) = Stat(out[j]))
                      => PlaceIn(work, out[i].id) < PlaceIn(work, out[j].id)
            /\ IdsOf(out) = SelectSeq(IdsOf(sorted(work, sort)), Shown)

\* C15 witness: two records with 7 views each keep the order the platform
\* gave them, around a short that was removed
C15_Witness ==
    /\ VideosSuccess
    /\ sort = "views"
    /\ shorts = "exclude"
    /\ IdsOf(ItemsOf(data)) = <<"v6", "v4", "v3">>
    /\ IdsOf(resp.items) = <<"v6", "v3">>

\* C16: for a videos request whose region is "WORLD" no outbound call
\* (primary listing, region-scoped search, unscoped search, hydration)
\* carries a regionCode parameter.
C16_WorldSendsNoRegionCode ==
    (endpoint = "videos" /\ region = "WORLD") =>
        \A i \in 1..Len(calls) : calls[i].regionCode = Absent

(***************************************************************************)
(* The client's videos requests (part_000:137-176, 301, 673-681).          *)
(***************************************************************************)
\* how many times the refresh control is pressed at most
MaxRequests == 3

\* longest item list a videos response carries to the client
MaxVideos == 2

ClientVideoIds == {"v1", "v2", "v3"}

\* the items of the response to request k: each a fresh object
ResponseLists(k) ==
    {[i \in 1..Len(s) |-> [id |-> s[i], from |-> k]] :
        s \in DistinctSeqs(ClientVideoIds, MaxVideos)}

\* part_000:151: "요청 실패"
DefaultMessage == "request failed"

\* the {details, error} bodies of a non-success response
ErrorBodies ==
    { [details |-> "quotaExceeded", error |-> "YouTube API error"],
      [details |-> "", error |-> "Missing YOUTUBE_API_KEY in environment."],
      [details |-> "", error |-> ""] }

\* part_000:154: data.details || data.error || message
MessageOf(body) ==
    IF body.details # "" THEN body.details
    ELSE IF body.error # "" THEN body.error
    ELSE DefaultMessage

\* the messages of what fetch or the body readers throw
ThrownMessages == {"Failed to fetch", "Body is unusable"}

\* a refresh control that is never disabled
RefreshAlwaysEnabled(isLoading) == TRUE

\* part_000:301: disabled={loading}
RefreshEnabled(isLoading) == ~isLoading

\* loading cleared at the end of the try block only
LoadingAfterTryOnly(failed) == failed

\* part_000:173-175: finally { setLoading(false) }
LoadingAfter(failed) == FALSE

\* an updater that keeps whatever is selected
KeepSelection(current, nextItems) ==
    IF current = NoVideo
    THEN IF nextItems = <<>> THEN NoVideo ELSE nextItems[1]
    ELSE current

\* part_000:165-170: the updater given to setSelectedVideo
NextSelection(current, nextItems) ==
    IF nextItems = <<>> THEN NoVideo
    ELSE IF current = NoVideo THEN nextItems[1]
    ELSE IF \E i \in 1..Len(nextItems) : nextItems[i].id = current.id
         THEN current
         ELSE nextItems[1]

VideosInit ==
    /\ ServerIdle
    /\ DurationIdle
    /\ VideosInitial
    /\ CategoriesInitial
    /\ storedOrder = NothingStored

\* part_000:301 and 137-149: a press on the refresh control starts
\* fetchVideos, which sets loading, clears the error and sends the request
Refresh ==
    /\ RefreshEnabled(loading)
    /\ issued < MaxRequests
    /\ loading' = TRUE
    /\ error' = NoStr
    /\ issued' = issued + 1
    /\ inFlight' = inFlight \cup {issued + 1}
    /\ UNCHANGED <<serverVars, durationVars, categoryVars, videos, selectedVideo,
                   playerOpen, applied>>

\* part_000:162-170 and 173-175: a success response to request k
ResponseOk(k) ==
    /\ k \in inFlight
    /\ \E nextItems \in ResponseLists(k) :
        /\ videos' = nextItems
        /\ selectedVideo' = NextSelection(selectedVideo, nextItems)
    /\ loading' = LoadingAfter(FALSE)
    /\ inFlight' = inFlight \ {k}
    /\ applied' = k
    /\ UNCHANGED <<serverVars, durationVars, categoryVars, error, playerOpen, issued>>

\* part_000:150-160 and 171-175: a non-success response to request k whose
\* body is {error, details}
ResponseNotOk(k) ==
    /\ k \in inFlight
    /\ \E body \in ErrorBodies : error' = MessageOf(body)
    /\ loading' = LoadingAfter(TRUE)
    /\ inFlight' = inFlight \ {k}
    /\ UNCHANGED <<serverVars, durationVars, categoryVars, videos, selectedVideo,
                   playerOpen, issued, applied>>

\* part_000:149, 155-158 and 171-175: fetch rejects, or the body of a
\* non-success response cannot be read
FetchThrows(k) ==
    /\ k \in inFlight
    /\ \E message \in ThrownMessages : error' = message
    /\ loading' = LoadingAfter(TRUE)
    /\ inFlight' = inFlight \ {k}
    /\ UNCHANGED <<serverVars, durationVars, categoryVars, videos, selectedVideo,
                   playerOpen, issued, applied>>

\* part_000:673-681: the play button of card i
Play(i) ==
    /\ i \in 1..Len(videos)
    /\ selectedVideo' = videos[i]
    /\ playerOpen' = TRUE
    /\ UNCHANGED <<serverVars, durationVars, categoryVars, videos, loading, error,
                   inFlight, issued, applied>>

\* part_000:281-288, 577 and 594: the Escape key or a close control
ClosePlayer ==
    /\ playerOpen
    /\ playerOpen' = FALSE
    /\ UNCHANGED <<serverVars, durationVars, categoryVars, videos, selectedVideo, loading,
                   error, inFlight, issued, applied>>

\* the answer to some request arrives
Answer ==
    \E k \in 1..MaxRequests :
        ResponseOk(k) \/ ResponseNotOk(k) \/ FetchThrows(k)

VideosNext ==
    \/ Refresh
    \/ Answer
    \/ \E i \in 1..MaxVideos : Play(i)
    \/ ClosePlayer

SpecVideos == VideosInit /\ [][VideosNext]_vars

\* every request sent is answered or fails at last
SpecVideosFair == SpecVideos /\ WF_vars(Answer)

(***************************************************************************)
(* Claims about the client's videos requests.                              *)
(***************************************************************************)
\* the ids of a list of videos
IdSet(list) == {list[i].id : i \in 1..Len(list)}

\* a step in which a request ends without its items being taken
FailureStep == inFlight' # inFlight /\ issued' = issued /\ applied' = applied

\* a step in which the items of a success response are taken
SuccessStep == applied' # applied

\* C13: every fetchVideos clears the loading flag in the end: loading is true
\* from the start of a request until it completes and false afterwards,
\* whether the response was a success, a non-success status or a throw, and
\* no request is sent while one is handled, a failed one included.
C13_LoadingCleared ==
    /\ [](loading <=> inFlight # {})
    /\ (loading ~> ~loading)
    /\ [][loading => issued' = issued]_vars
    /\ [][FailureStep => (~loading' /\ inFlight' = {} /\ error' # NoStr)]_vars

\* a refresh that succeeded, then one that threw, have both been handled
C13_Witness ==
    /\ ~loading
    /\ inFlight = {}
    /\ applied >= 1
    /\ issued > applied
    /\ error \in ThrownMessages

\* C17: selectedVideo is null or has the id of a video of the current list; a
\* success sets it to null for an empty list, keeps the selection whose id
\* is still listed, and takes the first item otherwise; a failure leaves the
\* list and the selection alone and sets the error message.
C17_SelectionInList ==
    /\ [](selectedVideo = NoVideo \/ selectedVideo.id \in IdSet(videos))
    /\ [][SuccessStep =>
            /\ videos' = <<>> => selectedVideo' = NoVideo
            /\ (selectedVideo # NoVideo
                /\ selectedVideo.id \in IdSet(videos'))
               => selectedVideo' = selectedVideo
            /\ (videos' # <<>>
                /\ (selectedVideo = NoVideo
                    \/ selectedVideo.id \notin IdSet(videos')))
               => selectedVideo' = videos'[1]]_vars
    /\ [][FailureStep =>
            /\ videos' = videos
            /\ selectedVideo' = selectedVideo
            /\ error' # NoStr]_vars

\* a selection made by a play click outlived a refresh that listed its id
\* again, in a list it does not lead
C17_Witness ==
    /\ selectedVideo # NoVideo
    /\ selectedVideo.from < applied
    /\ selectedVideo.id \in IdSet(videos)
    /\ videos[1].id # selectedVideo.id

\* C19: at most one videos request is in flight; a request starts only while
\* loading is false, so the items taken are always those of the latest
\* request and never those of an older one.
C19_OneRequestInFlight ==
    /\ [](Cardinality(inFlight) <= 1)
    /\ [][issued' # issued => ~loading]_vars
    /\ [][SuccessStep => (applied' = issued /\ applied' > applied)]_vars

\* the second request has been answered and the third is under way
C19_Witness ==
    /\ loading
    /\ applied = 2
    /\ inFlight = {3}

(***************************************************************************)
(* The client's category selector (part_000:189-233, 259-261, 374-413).    *)
(***************************************************************************)
\* longest array found in localStorage
MaxStored == 3

\* longest category list the categories endpoint answers with
MaxFetched == 2

\* the values a stored array may hold: "zz" is no category
StoredValues == {"all", "10", "25", "zz"}

\* route.ts:36-41: the values of the categories the endpoint sends
FetchedValues == {"10", "25"}

\* what localStorage may hold when the component mounts
StoredOrders ==
    {NothingStored, Stored("invalid", <<>>), Stored("object", <<>>)}
    \cup {Stored("array", s) : s \in Texts(StoredValues, MaxStored)}

\* part_000:193-196: the array the stored text parses to, if any
ParsedOrder(stored, current) ==
    IF stored.kind = "array" THEN stored.items ELSE current

\* part_000:232: JSON.stringify(categoryOrder)
Persisted(order) == Stored("array", order)

\* part_000:214-222: the updater given to setCategoryOrder
SanitizedOrder(current, next) ==
    LET Allowed(item) == item \in Range(next)
        sanitized == SelectSeq(current, Allowed)
        Missing(item) == item \notin Range(sanitized)
        withMissing == sanitized \o SelectSeq(next, Missing)
    IN  IF withMissing # <<>> THEN withMissing ELSE next

\* part_000:259-261: the categories in the order of categoryOrder
orderedCategories ==
    LET Known(value) == value \in Range(clientCategories)
    IN  SelectSeq(categoryOrder, Known)

\* part_000:376-380: the order with positions i and j exchanged
Swapped(order, i, j) == [order EXCEPT ![i] = order[j], ![j] = order[i]]

CategoriesInit ==
    /\ ServerIdle
    /\ DurationIdle
    /\ VideosInitial
    /\ CategoriesInitial
    /\ storedOrder \in StoredOrders

\* part_000:189-200 and 230-233: the effects of the first render read the
\* stored order and write the order back; 202-227 sends the request
Mount ==
    /\ cpc = "mount"
    /\ categoryOrder' = ParsedOrder(storedOrder, categoryOrder)
    /\ storedOrder' = Persisted(categoryOrder')
    /\ cpc' = "fetching"
    /\ UNCHANGED <<serverVars, durationVars, videoVars, clientCategories,
                   selectedCategory, editOrders>>

\* part_000:205-222 and 230-233: the categories arrive
LoadOk ==
    /\ cpc = "fetching"
    /\ \E fetched \in DistinctSeqs(FetchedValues, MaxFetched) :
        LET next == <<"all">> \o fetched
        IN  /\ clientCategories' = next
            /\ selectedCategory' =
                  IF selectedCategory \in Range(next)
                  THEN selectedCategory ELSE "all"
            /\ categoryOrder' = SanitizedOrder(categoryOrder, next)
    /\ storedOrder' = Persisted(categoryOrder')
    /\ cpc' = "loaded"
    /\ UNCHANGED <<serverVars, durationVars, videoVars, editOrders>>

\* part_000:206 and 223-225: a non-success status, or fetch throws
LoadFails ==
    /\ cpc = "fetching"
    /\ cpc' = "failed"
    /\ UNCHANGED <<serverVars, durationVars, videoVars, clientCategories,
                   selectedCategory, categoryOrder, editOrders, storedOrder>>

\* part_000:359: the control that opens and closes the order editor
ToggleEditOrders ==
    /\ cpc # "mount"
    /\ editOrders' = ~editOrders
    /\ UNCHANGED <<serverVars, durationVars, videoVars, clientCategories,
                   selectedCategory, categoryOrder, storedOrder, cpc>>

\* part_000:374-384: the up button of entry i of the editor (optionIndex
\* i - 1)
MoveUp(i) ==
    /\ cpc # "mount"
    /\ editOrders
    /\ i \in 1..Len(orderedCategories)
    /\ i # 1
    /\ categoryOrder' = Swapped(categoryOrder, i - 1, i)
    /\ storedOrder' = Persisted(categoryOrder')
    /\ UNCHANGED <<serverVars, durationVars, videoVars, clientCategories,
                   selectedCategory, editOrders, cpc>>

\* part_000:391-401: the down button of entry i of the editor
MoveDown(i) ==
    /\ cpc # "mount"
    /\ editOrders
    /\ i \in 1..Len(orderedCategories)
    /\ i # Len(orderedCategories)
    /\ categoryOrder' = Swapped(categoryOrder, i, i + 1)
    /\ storedOrder' = Persisted(categoryOrder')
    /\ UNCHANGED <<serverVars, durationVars, videoVars, clientCategories,
                   selectedCategory, editOrders, cpc>>

\* part_000:413: the selector offers orderedCategories
SelectCategory(i) ==
    /\ cpc # "mount"
    /\ i \in 1..Len(orderedCategories)
    /\ selectedCategory' = orderedCategories[i]
    /\ UNCHANGED <<serverVars, durationVars, videoVars, clientCategories,
                   categoryOrder, editOrders, storedOrder, cpc>>

\* the longest order the component can hold
MaxOrder == MaxStored + MaxFetched + 1

CategoriesNext ==
    \/ Mount
    \/ LoadOk
    \/ LoadFails
    \/ ToggleEditOrders
    \/ \E i \in 1..MaxOrder : MoveUp(i)
    \/ \E i \in 1..MaxOrder : MoveDown(i)
    \/ \E i \in 1..MaxOrder : SelectCategory(i)

SpecCategories == CategoriesInit /\ [][CategoriesNext]_vars

\* how often value occurs in order
Occurrences(order, value) ==
    Cardinality({i \in 1..Len(order) : order[i] = value})

\* C18: once the categories have loaded, categoryOrder holds "all" and every
\* fetched value exactly once and nothing else, whatever was stored and
\* whatever was moved, and the selected category is one of the loaded ones.
C18_OrderIsPermutation ==
    cpc = "loaded" =>
        /\ Range(categoryOrder) = Range(clientCategories)
        /\ \A value \in Range(clientCategories) :
              Occurrences(categoryOrder, value) = 1
        /\ selectedCategory \in Range(clientCategories)

====
